---- MODULE Spec2Model ----
(***************************************************************************)
(* Debate execution engine (backend/orchestrator.py, backend/storage.py,   *)
(* backend/models.py): the DebateOrchestrator driving runs of a template   *)
(* in auto mode (one background task per run) and in step mode (one phase  *)
(* per advance call), with cancellation.                                   *)
(*                                                                         *)
(* The engine runs on one asyncio event loop: code between two awaits is   *)
(* one atomic step.  The only awaits that suspend are the chat calls of a  *)
(* phase fan-out (_execute_phase) and the moderator's chat call            *)
(* (_moderator_summary); every action below is one such segment.           *)
(***************************************************************************)
EXTENDS Integers, Sequences, FiniteSets, TLC

\* ------------------------------------------------------------------ bounds
\* advance calls that may be in flight (suspended) at the same time
MaxInFlight == 2
\* advance calls a caller issues beyond the rounds x phases of the run
MaxExtraAdvance == 1
\* chat calls that fail in one behaviour
MaxFailures == 1
\* PhaseOutputs in a list handed to the vote tallier
MaxVotes == 3

\* ------------------------------------------------------------- data model
NoneVal == "None"

\* RunStatus values that advance_debate treats as terminal
Terminal == {"completed", "failed", "canceled"}

\* Raw texts a chat call returns: for a vote phase, for any other phase
VoteTexts == {"yes", "no", "maybe"}
PlainTexts == {"text"}
\* f"(error: {exc})", the text recorded for a failed participant call
ErrorMarker == "(error)"

Participant3 == <<"p1", "p2", "p3">>

\* Templates of the store.  A template: id, rounds (>= 1), phases (id, role),
\* participants (3, 5 or 7 ids), moderator (present or not).
TVote ==
    [id |-> "tVote", rounds |-> 1,
     phases |-> << [id |-> "argue", role |-> "argument_for"],
                   [id |-> "vote", role |-> "vote"] >>,
     participants |-> Participant3, moderator |-> FALSE]

TMod ==
    [id |-> "tMod", rounds |-> 2,
     phases |-> << [id |-> "react", role |-> "reaction"] >>,
     participants |-> Participant3, moderator |-> TRUE]

TPlain ==
    [id |-> "tPlain", rounds |-> 1,
     phases |-> << [id |-> "react", role |-> "reaction"] >>,
     participants |-> Participant3, moderator |-> FALSE]

\* Two rounds of one phase, no vote phase, no moderator
TTwo ==
    [id |-> "tTwo", rounds |-> 2,
     phases |-> << [id |-> "react", role |-> "reaction"] >>,
     participants |-> Participant3, moderator |-> FALSE]

\* The template of the specification's test case: 2 rounds x 3 phases, no
\* vote phase, no moderator.
TCase ==
    [id |-> "tCase", rounds |-> 2,
     phases |-> << [id |-> "open", role |-> "reaction"],
                   [id |-> "pro", role |-> "argument_for"],
                   [id |-> "con", role |-> "argument_against"] >>,
     participants |-> Participant3, moderator |-> FALSE]

TemplateFn(set) == [tid \in {t.id : t \in set} |-> CHOOSE t \in set : t.id = tid]

\* StartDebateRequest.rounds is Optional[int] with no constraint: <<>> is None
RoundsInputs == {<<>>, <<0>>, <<-1>>}
ModeInputs == {"auto", "step"}

RoundResult(round_index) ==
    [round_index |-> round_index, phase_outputs |-> <<>>, votes |-> <<>>,
     outcome |-> NoneVal, moderator_summary |-> NoneVal]

PhaseOutput(phase_id, participant_id, output) ==
    [phase_id |-> phase_id, participant_id |-> participant_id, output |-> output]

Range(seq) == {seq[i] : i \in DOMAIN seq}

\* dict.pop(key, None)
Pop(f, k) == [x \in DOMAIN f \ {k} |-> f[x]]
\* dict[key] = value
Put(f, k, v) == [x \in DOMAIN f \cup {k} |-> IF x = k THEN v ELSE f[x]]

VARIABLES
    templates,      \* store.templates: template id -> template
    runs,           \* store.runs: run id -> DebateRun (ids are 1, 2, ...)
    final_records,  \* store.final_records
    progress,       \* orchestrator._progress: run id -> <<round_idx, phase_idx>>
    context,        \* orchestrator._context: run id -> RunContext
    tasks,          \* the background task of each auto-mode run
    calls,          \* the advance calls in flight (suspended in a chat call)
    resp,           \* what the last finished operation returned or raised
    advances,       \* run id -> advance calls issued for it so far
    started,        \* run id -> the total_rounds its start request resolved to
    failures,       \* chat calls that have failed so far
    tallier         \* a call of the vote tallier: its argument and its result

vars == <<templates, runs, final_records, progress, context, tasks, calls,
          resp, advances, started, failures, tallier>>

RunIds == DOMAIN runs

\* The run ids the callers name.  Every table of the engine is keyed by run
\* id and no operation reads another run's entry, so the model follows the
\* runs one start_debate call creates and the calls that name its id.
RunIdInputs == {1}

\* The engine state that synchronous code reads and writes, as one value
State ==
    [runs |-> runs, final_records |-> final_records, progress |-> progress,
     context |-> context]

\* ------------------------------------------------------------ vote tallier
\* _parse_vote on the texts a chat call returns here.  "" is falsy; a text of
\* whitespace only is truthy and strips to "", whose splitlines() is empty,
\* so [0] raises IndexError; "yes"/"no" match the regular expression; "not
\* sure" does not match it (no word boundary after "no") but starts with
\* "no"; the other texts ("maybe", the error marker) match neither the
\* expression nor a yes/no prefix.
_parse_vote(raw) ==
    CASE raw = "" -> "INVALID"
      [] raw = " " -> "IndexError"
      [] raw = "yes" -> "YES"
      [] raw = "no" -> "NO"
      [] raw = "not sure" -> "NO"
      [] OTHER -> "INVALID"

CountVotes(votes, v) == Cardinality({i \in DOMAIN votes : votes[i].parsed_vote = v})

\* A tally that calls equal counts a tie even when both are zero
_tally_votes_zero_tie(outputs) ==
    LET votes == [i \in DOMAIN outputs |->
                    [participant_id |-> outputs[i].participant_id,
                     raw_output |-> outputs[i].output,
                     parsed_vote |-> _parse_vote(outputs[i].output)]]
        yes_count == CountVotes(votes, "YES")
        no_count == CountVotes(votes, "NO")
        outcome == IF yes_count > no_count THEN "YES"
                   ELSE IF no_count > yes_count THEN "NO"
                   ELSE "TIE"
    IN  IF \E i \in DOMAIN votes : votes[i].parsed_vote = "IndexError"
        THEN [exc |-> "IndexError", votes |-> <<>>, outcome |-> NoneVal]
        ELSE [exc |-> NoneVal, votes |-> votes, outcome |-> outcome]

_tally_votes(outputs) ==
    LET votes == [i \in DOMAIN outputs |->
                    [participant_id |-> outputs[i].participant_id,
                     raw_output |-> outputs[i].output,
                     parsed_vote |-> _parse_vote(outputs[i].output)]]
        yes_count == CountVotes(votes, "YES")
        no_count == CountVotes(votes, "NO")
        outcome == IF yes_count > no_count THEN "YES"
                   ELSE IF no_count > yes_count THEN "NO"
                   ELSE IF yes_count = no_count /\ yes_count > 0 THEN "TIE"
                   ELSE "INVALID"
    IN  IF \E i \in DOMAIN votes : votes[i].parsed_vote = "IndexError"
        THEN [exc |-> "IndexError", votes |-> <<>>, outcome |-> NoneVal]
        ELSE [exc |-> NoneVal, votes |-> votes, outcome |-> outcome]

\* The tallier called on its own.  Raw texts of vote-phase outputs: the
\* texts of VoteTexts, the empty text, a text of whitespace only, a text with
\* no yes/no word, and the error marker of a failed call
TallyTexts == VoteTexts \cup {"", " ", "not sure", ErrorMarker}
\* DebateTemplate.participants holds at most 7 participants
Participant7 == <<"p1", "p2", "p3", "p4", "p5", "p6", "p7">>

\* The lists of up to MaxVotes vote-phase PhaseOutputs, one per participant
TallyInputs ==
    UNION {{[i \in 1..n |-> PhaseOutput("vote", Participant7[i], texts[i])] :
                texts \in [1..n -> TallyTexts]} : n \in 0..MaxVotes}

NoTally ==
    [outputs |-> <<>>, done |-> FALSE,
     result |-> [exc |-> NoneVal, votes |-> <<>>, outcome |-> NoneVal]]

\* votes, outcome = self._tally_votes(outputs)
TallyVotes ==
    /\ ~tallier.done
    /\ tallier' = [tallier EXCEPT !.done = TRUE,
                                 !.result = _tally_votes(tallier.outputs)]
    /\ UNCHANGED <<templates, runs, final_records, progress, context, tasks,
                   calls, resp, advances, started, failures>>

\* ------------------------------------------------------------ finalization
RoundOutcome == {"YES", "NO", "TIE", "INVALID"}

\* FinalRecord(debate_id, title, final_outcome): pydantic validates that
\* final_outcome is a RoundOutcome and raises ValidationError otherwise
FinalRecordValid(final_outcome) == final_outcome \in RoundOutcome

FinalRecord(debate_id, final_outcome) ==
    [debate_id |-> debate_id, final_outcome |-> final_outcome]

\* run.rounds[-1].outcome if run.rounds else RoundOutcome.invalid
FinalOutcome(run) ==
    IF Len(run.rounds) > 0 THEN run.rounds[Len(run.rounds)].outcome ELSE "INVALID"

\* _finalize without its check of the context entry
_finalize_unguarded(s, id) ==
    LET final_outcome == FinalOutcome(s.runs[id])
        s1 == [s EXCEPT !.runs[id].status = "completed"]
    IN  IF ~FinalRecordValid(final_outcome)
        THEN [s |-> s1, exc |-> "ValidationError"]
        ELSE [s |-> [s1 EXCEPT
                       !.final_records = Append(@, FinalRecord(id, final_outcome)),
                       !.progress = Pop(@, id),
                       !.context = Pop(@, id)],
              exc |-> NoneVal]

\* _finalize: the new engine state and the exception it raises, if any
_finalize(s, id) ==
    IF id \notin DOMAIN s.runs \/ id \notin DOMAIN s.context
    THEN [s |-> s, exc |-> NoneVal]
    ELSE LET final_outcome == FinalOutcome(s.runs[id])
             s1 == [s EXCEPT !.runs[id].status = "completed"]
         IN  IF ~FinalRecordValid(final_outcome)
             THEN [s |-> s1, exc |-> "ValidationError"]
             ELSE [s |-> [s1 EXCEPT
                            !.final_records = Append(@, FinalRecord(id, final_outcome)),
                            !.progress = Pop(@, id),
                            !.context = Pop(@, id)],
                   exc |-> NoneVal]

\* ---------------------------------------------------------- phase fan-out
\* A fan-out that creates a task for the first roster participant only
DispatchFirst(template) == {template.participants[1]}

\* _execute_phase up to its first await: one chat task per roster participant
Dispatch(template) == Range(template.participants)

\* One pass of the as_completed loop: the PhaseOutput is appended to the
\* round's transcript (round_no is the round's position in run.rounds)
AppendOutput(s, id, round_no, po) ==
    [s EXCEPT !.runs[id].rounds[round_no].phase_outputs = Append(@, po)]

\* The texts a successful chat call of a phase may return (the error marker
\* is the text of a failed call)
TextsFor(phase) ==
    IF phase.role = "vote" THEN TallyTexts \ {ErrorMarker} ELSE PlainTexts

\* _get_or_create_round
_get_or_create_round(rounds, round_index) ==
    IF Len(rounds) < round_index THEN Append(rounds, RoundResult(round_index))
    ELSE rounds

\* The history text of a prompt: its first line (the placeholder, or the
\* header "Round n transcript:" given as <<n>>), one line per PhaseOutput
\* and the votes line <<yes, no, outcome>> (<<>> when there is none)
NoPriorRound ==
    [text |-> "(no prior round responses)", round |-> <<>>, lines |-> <<>>,
     votes |-> <<>>]
NoHistory == [text |-> NoneVal, round |-> <<>>, lines |-> <<>>, votes |-> <<>>]

\* _prior_round_transcript: the rendering of run.rounds[-1]
_prior_round_transcript(run) ==
    IF run.rounds = <<>> THEN NoPriorRound
    ELSE LET last == run.rounds[Len(run.rounds)]
         IN  [text |-> "transcript", round |-> <<last.round_index>>,
              lines |-> last.phase_outputs,
              votes |-> IF last.votes # <<>>
                        THEN <<CountVotes(last.votes, "YES"),
                               CountVotes(last.votes, "NO"),
                               IF last.outcome # NoneVal THEN last.outcome
                               ELSE "INVALID">>
                        ELSE <<>>]

\* _build_messages: the history every run_one of a fan-out renders into its
\* prompt; each does so in its first step, before any chat call has returned
_build_messages(s, id) == _prior_round_transcript(s.runs[id])

\* lines 131-135 and 163-166: a vote phase's outputs are tallied and recorded
RecordVotes(s, id, round_no, tally) ==
    [s EXCEPT !.runs[id].rounds[round_no].votes = tally.votes,
              !.runs[id].rounds[round_no].outcome = tally.outcome]

\* What an operation returned or raised: op, the run id, the number of the
\* advance call (0 for the other operations), the result ("ok" or the
\* exception) and advance's done flag
Resp(op, id, n, result, done) ==
    [op |-> op, id |-> id, n |-> n, result |-> result, done |-> done]

Commit(s) ==
    /\ runs' = s.runs
    /\ final_records' = s.final_records
    /\ progress' = s.progress
    /\ context' = s.context

\* ------------------------------------------------------------ start_debate
\* payload.rounds or template.rounds
TotalRounds(template, rounds) ==
    IF rounds = <<>> \/ rounds[1] = 0 THEN template.rounds ELSE rounds[1]

\* The locals of _run_to_completion and of the _execute_round and
\* _execute_phase frames it is suspended in
NewTask ==
    [pc |-> "created", total_rounds |-> 0, iter |-> 0, template |-> NoneVal,
     round_index |-> 0, phase_idx |-> 0, pending |-> {}, outputs |-> <<>>,
     history |-> NoHistory, exc |-> NoneVal]

start_debate(template_id, rounds, mode) ==
    /\ Len(runs) < Cardinality(RunIdInputs)
    /\ IF template_id \notin DOMAIN templates
       THEN /\ resp' = Resp("start", 0, 0, "template not found", FALSE)
            /\ UNCHANGED <<runs, final_records, progress, context, tasks, started>>
       ELSE LET id == Len(runs) + 1
                run == [template_id |-> template_id, status |-> "running",
                        mode |-> mode, rounds |-> <<>>]
                ctx == [template |-> template_id,
                        total_rounds |-> TotalRounds(templates[template_id], rounds)]
            IN  /\ runs' = Append(runs, run)
                /\ context' = Put(context, id, ctx)
                /\ progress' = Put(progress, id, <<0, 0>>)
                /\ tasks' = IF mode = "auto" THEN Put(tasks, id, NewTask) ELSE tasks
                /\ resp' = Resp("start", id, 0, "ok", FALSE)
                /\ started' = Put(started, id, ctx.total_rounds)
                /\ UNCHANGED final_records
    /\ UNCHANGED <<tallier, templates, calls, advances, failures>>

\* ------------------------------------------------------- auto mode: the task
\* The task has ended: it returned (the completed status of lines 79-80 is
\* set on a deep copy, not on the stored run), or an exception left
\* _run_to_completion; _track's callback drops it from _tasks
Ended(t, exc) ==
    [NewTask EXCEPT !.pc = IF exc = NoneVal THEN "returned" ELSE "raised",
                    !.exc = exc]

\* _execute_round from its start to the first await of its first phase (the
\* context entry is present; every template has at least one phase)
_execute_round(s, id, t) ==
    LET round_index == Len(s.runs[id].rounds) + 1
        tid == s.context[id].template
        s1 == [s EXCEPT !.runs[id].rounds = _get_or_create_round(@, round_index)]
    IN  [s |-> s1,
         t |-> [t EXCEPT !.pc = "phase", !.template = tid,
                         !.round_index = round_index, !.phase_idx = 0,
                         !.pending = Dispatch(templates[tid]), !.outputs = <<>>,
                         !.history = _build_messages(s1, id)]]

\* The loop of _run_to_completion from iteration t.iter on, up to the next
\* await or to the end of the task.  _execute_round returns at once when the
\* context entry is gone.
RECURSIVE _run_to_completion(_, _, _)
_run_to_completion(s, id, t) ==
    IF t.iter >= t.total_rounds
    THEN LET f == _finalize(s, id) IN [s |-> f.s, t |-> Ended(t, f.exc)]
    ELSE IF id \notin DOMAIN s.context
         THEN _run_to_completion(s, id, [t EXCEPT !.iter = @ + 1])
         ELSE _execute_round(s, id, t)

\* An _execute_round that does not await the moderator's summary after the
\* last phase
RoundResume_no_summary(s, id, t) ==
    LET template == templates[t.template]
        phase == template.phases[t.phase_idx + 1]
        voted == phase.role = "vote"
        tally == _tally_votes(t.outputs)
        s1 == IF voted THEN RecordVotes(s, id, t.round_index, tally) ELSE s
    IN  IF voted /\ tally.exc # NoneVal
        THEN [s |-> s, t |-> Ended(t, tally.exc)]
        ELSE IF t.phase_idx + 1 < Len(template.phases)
        THEN [s |-> s1, t |-> [t EXCEPT !.phase_idx = @ + 1,
                                        !.pending = Dispatch(template),
                                        !.outputs = <<>>,
                                        !.history = _build_messages(s1, id)]]
        ELSE _run_to_completion(s1, id, [t EXCEPT !.iter = @ + 1])

\* _execute_round after a phase's fan-out has completed (lines 131-140), and
\* on into the next iteration of the loop
RoundResume(s, id, t) ==
    LET template == templates[t.template]
        phase == template.phases[t.phase_idx + 1]
        voted == phase.role = "vote"
        tally == _tally_votes(t.outputs)
        s1 == IF voted THEN RecordVotes(s, id, t.round_index, tally) ELSE s
    IN  IF voted /\ tally.exc # NoneVal
        THEN [s |-> s, t |-> Ended(t, tally.exc)]
        ELSE IF t.phase_idx + 1 < Len(template.phases)
        THEN [s |-> s1, t |-> [t EXCEPT !.phase_idx = @ + 1,
                                        !.pending = Dispatch(template),
                                        !.outputs = <<>>,
                                        !.history = _build_messages(s1, id)]]
        ELSE IF template.moderator
        THEN [s |-> s1, t |-> [t EXCEPT !.pc = "moderator", !.outputs = <<>>]]
        ELSE _run_to_completion(s1, id, [t EXCEPT !.iter = @ + 1])

\* The task's first step
TaskStart(id) ==
    /\ id \in DOMAIN tasks
    /\ tasks[id].pc = "created"
    /\ IF id \notin DOMAIN context
       THEN /\ tasks' = [tasks EXCEPT ![id] = Ended(@, "debate not found")]
            /\ UNCHANGED <<runs, final_records, progress, context>>
       ELSE LET t == [tasks[id] EXCEPT !.total_rounds = context[id].total_rounds]
                r == _run_to_completion(State, id, t)
            IN  Commit(r.s) /\ tasks' = [tasks EXCEPT ![id] = r.t]
    /\ UNCHANGED <<tallier, templates, calls, resp, advances, started, failures>>

\* A participant's chat call of the task's fan-out is done and the
\* as_completed loop appends its PhaseOutput; after the last one the round
\* goes on
TaskOutput(id, p, raw) ==
    LET t == tasks[id]
        phase == templates[t.template].phases[t.phase_idx + 1]
        po == PhaseOutput(phase.id, p, raw)
        s1 == AppendOutput(State, id, t.round_index, po)
        t1 == [t EXCEPT !.pending = @ \ {p}, !.outputs = Append(@, po)]
        r == IF t1.pending = {} THEN RoundResume(s1, id, t1) ELSE [s |-> s1, t |-> t1]
    IN  Commit(r.s) /\ tasks' = [tasks EXCEPT ![id] = r.t]

TaskChatReturns(id, p, raw) ==
    /\ id \in DOMAIN tasks
    /\ tasks[id].pc = "phase"
    /\ p \in tasks[id].pending
    /\ raw \in TextsFor(templates[tasks[id].template].phases[tasks[id].phase_idx + 1])
    /\ TaskOutput(id, p, raw)
    /\ UNCHANGED <<tallier, templates, calls, resp, advances, started, failures>>

\* A fan-out whose run_one lets the chat call's exception through: it leaves
\* _execute_phase and the task
TaskChatFails_uncaught(id, p) ==
    /\ id \in DOMAIN tasks
    /\ tasks[id].pc = "phase"
    /\ p \in tasks[id].pending
    /\ failures < MaxFailures
    /\ failures' = failures + 1
    /\ tasks' = [tasks EXCEPT ![id] = Ended(@, "RuntimeError")]
    /\ UNCHANGED <<tallier, templates, runs, final_records, progress, context,
                   calls, resp, advances, started>>

TaskChatFails(id, p) ==
    /\ id \in DOMAIN tasks
    /\ tasks[id].pc = "phase"
    /\ p \in tasks[id].pending
    /\ failures < MaxFailures
    /\ failures' = failures + 1
    /\ TaskOutput(id, p, ErrorMarker)
    /\ UNCHANGED <<tallier, templates, calls, resp, advances, started>>

\* _moderator_summary's chat call returns: the summary is recorded and the
\* loop goes on
TaskModeratorReturns(id) ==
    /\ id \in DOMAIN tasks
    /\ tasks[id].pc = "moderator"
    /\ LET t == tasks[id]
           s1 == [State EXCEPT
                    !.runs[id].rounds[t.round_index].moderator_summary = "summary"]
           r == _run_to_completion(s1, id, [t EXCEPT !.iter = @ + 1])
       IN  Commit(r.s) /\ tasks' = [tasks EXCEPT ![id] = r.t]
    /\ UNCHANGED <<tallier, templates, calls, resp, advances, started, failures>>

\* _moderator_summary's chat call raises: nothing catches it
TaskModeratorFails(id) ==
    /\ id \in DOMAIN tasks
    /\ tasks[id].pc = "moderator"
    /\ failures < MaxFailures
    /\ failures' = failures + 1
    /\ tasks' = [tasks EXCEPT ![id] = Ended(@, "RuntimeError")]
    /\ UNCHANGED <<tallier, templates, runs, final_records, progress, context, calls,
                   resp, advances, started>>

\* ------------------------------------------------------------------ cancel
\* cancel without the removal of the context entry
cancel_keeps_context(id) ==
    /\ IF id \notin RunIds
       THEN /\ resp' = Resp("cancel", id, 0, "debate not found", FALSE)
            /\ UNCHANGED <<runs, progress>>
       ELSE /\ runs' = [runs EXCEPT ![id].status = "canceled"]
            /\ progress' = Pop(progress, id)
            /\ resp' = Resp("cancel", id, 0, "ok", FALSE)
    /\ UNCHANGED <<tallier, templates, final_records, context, tasks, calls, advances,
                   started, failures>>

cancel(id) ==
    /\ IF id \notin RunIds
       THEN /\ resp' = Resp("cancel", id, 0, "debate not found", FALSE)
            /\ UNCHANGED <<runs, progress, context>>
       ELSE /\ runs' = [runs EXCEPT ![id].status = "canceled"]
            /\ progress' = Pop(progress, id)
            /\ context' = Pop(context, id)
            /\ resp' = Resp("cancel", id, 0, "ok", FALSE)
    /\ UNCHANGED <<tallier, templates, final_records, tasks, calls, advances, started, failures>>

\* ------------------------------------------- step mode: advance_debate
\* The locals of an advance call suspended in _execute_phase_step: the run,
\* the call's number, ctx (template, total_rounds), the cursor it read, and
\* the _execute_phase frame
IdleCall ==
    [pc |-> "idle", id |-> 0, n |-> 0, template |-> NoneVal, total_rounds |-> 0,
     round_idx |-> 0, phase_idx |-> 0, pending |-> {}, outputs |-> <<>>,
     history |-> NoHistory]

FreeSlots == {k \in DOMAIN calls : calls[k].pc = "idle"}
InFlight(id) == {k \in DOMAIN calls : calls[k].pc # "idle" /\ calls[k].id = id}

\* advance_debate lines 106-107: what the call returns, or the exception
\* that left _execute_phase_step
AdvanceResp(s, id, n, exc) ==
    IF exc # NoneVal THEN Resp("advance", id, n, exc, FALSE)
    ELSE Resp("advance", id, n, "ok", s.runs[id].status \in Terminal)

\* _execute_phase_step lines 177-181: the cursor and the run are stored, and
\* the run is finalized when the cursor has left the last round
StepFinish(s, c, round_idx, phase_idx) ==
    LET s1 == [s EXCEPT !.progress = Put(@, c.id, <<round_idx, phase_idx>>)]
        f == IF round_idx >= c.total_rounds THEN _finalize(s1, c.id)
             ELSE [s |-> s1, exc |-> NoneVal]
    IN  [s |-> f.s, c |-> IdleCall, resp |-> AdvanceResp(f.s, c.id, c.n, f.exc)]

\* _execute_phase_step after the phase's fan-out has completed (lines 163-176)
StepResume(s, c) ==
    LET template == templates[c.template]
        phase == template.phases[c.phase_idx + 1]
        voted == phase.role = "vote"
        tally == _tally_votes(c.outputs)
        s1 == IF voted THEN RecordVotes(s, c.id, c.round_idx + 1, tally) ELSE s
    IN  IF voted /\ tally.exc # NoneVal
        THEN [s |-> s, c |-> IdleCall, resp |-> AdvanceResp(s, c.id, c.n, tally.exc)]
        ELSE IF c.phase_idx = Len(template.phases) - 1
        THEN IF template.moderator
             THEN [s |-> s1, c |-> [c EXCEPT !.pc = "moderator", !.outputs = <<>>],
                   resp |-> resp]
             ELSE StepFinish(s1, c, c.round_idx + 1, 0)
        ELSE StepFinish(s1, c, c.round_idx, c.phase_idx + 1)

\* An _execute_phase_step that appends the RoundResult without the check of
\* line 156
_execute_phase_step_always_appends(s, id, n) ==
    LET ctx == s.context[id]
        round_idx == s.progress[id][1]
        phase_idx == s.progress[id][2]
        rounds == s.runs[id].rounds
        s1 == [s EXCEPT !.runs[id].rounds = Append(@, RoundResult(round_idx + 1))]
    IN  IF id \notin DOMAIN s.progress
        THEN [s |-> s, c |-> IdleCall, resp |-> AdvanceResp(s, id, n, "KeyError")]
        ELSE IF round_idx >= ctx.total_rounds
        THEN LET f == _finalize(s, id)
             IN  [s |-> f.s, c |-> IdleCall, resp |-> AdvanceResp(f.s, id, n, f.exc)]
        ELSE [s |-> s1,
              c |-> [pc |-> "phase", id |-> id, n |-> n, template |-> ctx.template,
                     total_rounds |-> ctx.total_rounds, round_idx |-> round_idx,
                     phase_idx |-> phase_idx,
                     pending |-> Dispatch(templates[ctx.template]),
                     outputs |-> <<>>, history |-> _build_messages(s1, id)],
              resp |-> resp]

\* _execute_phase_step from its start (the context entry is present): either
\* it finalizes and returns, or it suspends in the fan-out of the phase the
\* cursor points at
_execute_phase_step(s, id, n) ==
    LET ctx == s.context[id]
        round_idx == s.progress[id][1]
        phase_idx == s.progress[id][2]
        rounds == s.runs[id].rounds
        s1 == IF round_idx >= Len(rounds)
              THEN [s EXCEPT !.runs[id].rounds = Append(@, RoundResult(round_idx + 1))]
              ELSE s
    IN  IF id \notin DOMAIN s.progress
        THEN [s |-> s, c |-> IdleCall, resp |-> AdvanceResp(s, id, n, "KeyError")]
        ELSE IF round_idx >= ctx.total_rounds
        THEN LET f == _finalize(s, id)
             IN  [s |-> f.s, c |-> IdleCall, resp |-> AdvanceResp(f.s, id, n, f.exc)]
        ELSE [s |-> s1,
              c |-> [pc |-> "phase", id |-> id, n |-> n, template |-> ctx.template,
                     total_rounds |-> ctx.total_rounds, round_idx |-> round_idx,
                     phase_idx |-> phase_idx,
                     pending |-> Dispatch(templates[ctx.template]),
                     outputs |-> <<>>, history |-> _build_messages(s1, id)],
              resp |-> resp]

\* The advance calls a caller issues for a run: one per phase of a step-mode
\* run, and MaxExtraAdvance more
AdvanceBudget(id) ==
    IF id \in RunIds /\ runs[id].mode = "step"
    THEN LET template == templates[runs[id].template_id]
         IN  template.rounds * Len(template.phases) + MaxExtraAdvance
    ELSE MaxExtraAdvance

advance_debate(id) ==
    /\ advances[id] < AdvanceBudget(id)
    /\ advances' = [advances EXCEPT ![id] = @ + 1]
    /\ LET n == advances[id] + 1 IN
       IF id \notin DOMAIN context \/ id \notin RunIds
       THEN /\ resp' = Resp("advance", id, n, "debate not found", FALSE)
            /\ UNCHANGED <<runs, final_records, progress, context, calls>>
       ELSE IF runs[id].mode # "step"
       THEN /\ resp' = Resp("advance", id, n, "debate not in step mode", FALSE)
            /\ UNCHANGED <<runs, final_records, progress, context, calls>>
       ELSE IF runs[id].status \in Terminal
       THEN /\ resp' = Resp("advance", id, n, "ok", TRUE)
            /\ UNCHANGED <<runs, final_records, progress, context, calls>>
       ELSE LET r == _execute_phase_step(State, id, n)
                k == CHOOSE k \in FreeSlots : \A j \in FreeSlots : k <= j
            IN  /\ r.c.pc # "idle" => FreeSlots # {}
                /\ Commit(r.s)
                /\ resp' = r.resp
                /\ calls' = IF r.c.pc = "idle" THEN calls
                            ELSE [calls EXCEPT ![k] = r.c]
    /\ UNCHANGED <<tallier, templates, tasks, started, failures>>

\* An advance call by a caller that serializes its advances of a run: it
\* waits for the previous call's response
advance_serial(id) == InFlight(id) = {} /\ advance_debate(id)

\* A participant's chat call of an advance call's fan-out is done and its
\* PhaseOutput is appended; after the last one the step goes on
CallOutput(k, p, raw) ==
    LET c == calls[k]
        phase == templates[c.template].phases[c.phase_idx + 1]
        po == PhaseOutput(phase.id, p, raw)
        s1 == AppendOutput(State, c.id, c.round_idx + 1, po)
        c1 == [c EXCEPT !.pending = @ \ {p}, !.outputs = Append(@, po)]
        r == IF c1.pending = {} THEN StepResume(s1, c1)
             ELSE [s |-> s1, c |-> c1, resp |-> resp]
    IN  Commit(r.s) /\ calls' = [calls EXCEPT ![k] = r.c] /\ resp' = r.resp

CallChatReturns(k, p, raw) ==
    /\ calls[k].pc = "phase"
    /\ p \in calls[k].pending
    /\ raw \in TextsFor(templates[calls[k].template].phases[calls[k].phase_idx + 1])
    /\ CallOutput(k, p, raw)
    /\ UNCHANGED <<tallier, templates, tasks, advances, started, failures>>

CallChatFails(k, p) ==
    /\ calls[k].pc = "phase"
    /\ p \in calls[k].pending
    /\ failures < MaxFailures
    /\ failures' = failures + 1
    /\ CallOutput(k, p, ErrorMarker)
    /\ UNCHANGED <<tallier, templates, tasks, advances, started>>

\* _moderator_summary's chat call returns to an advance call (lines 170-178)
CallModeratorReturns(k) ==
    /\ calls[k].pc = "moderator"
    /\ LET c == calls[k]
           s1 == [State EXCEPT
                    !.runs[c.id].rounds[c.round_idx + 1].moderator_summary = "summary"]
           r == StepFinish(s1, c, c.round_idx + 1, 0)
       IN  Commit(r.s) /\ calls' = [calls EXCEPT ![k] = r.c] /\ resp' = r.resp
    /\ UNCHANGED <<tallier, templates, tasks, advances, started, failures>>

\* _moderator_summary's chat call raises: the exception leaves advance_debate
\* before the cursor is stored
CallModeratorFails(k) ==
    /\ calls[k].pc = "moderator"
    /\ failures < MaxFailures
    /\ failures' = failures + 1
    /\ resp' = Resp("advance", calls[k].id, calls[k].n, "RuntimeError", FALSE)
    /\ calls' = [calls EXCEPT ![k] = IdleCall]
    /\ UNCHANGED <<tallier, templates, runs, final_records, progress, context, tasks,
                   advances, started>>

\* --------------------------------------------------------- specifications
InitWith(set) ==
    /\ templates = TemplateFn(set)
    /\ runs = <<>>
    /\ final_records = <<>>
    /\ progress = <<>>
    /\ context = <<>>
    /\ tasks = <<>>
    /\ calls = [k \in 1..MaxInFlight |-> IdleCall]
    /\ resp = Resp("none", 0, 0, "ok", FALSE)
    /\ advances = [id \in RunIdInputs |-> 0]
    /\ started = <<>>
    /\ failures = 0

TemplateIdInputs == DOMAIN templates \cup {"missing"}
Participants == Range(Participant3)

Init == InitWith({TVote, TMod, TPlain}) /\ tallier = NoTally

Next ==
    \/ \E tid \in TemplateIdInputs, rounds \in RoundsInputs, mode \in ModeInputs :
          start_debate(tid, rounds, mode)
    \/ \E id \in RunIdInputs : TaskStart(id)
    \/ \E id \in RunIdInputs, p \in Participants, raw \in VoteTexts \cup PlainTexts :
          TaskChatReturns(id, p, raw)
    \/ \E id \in RunIdInputs, p \in Participants : TaskChatFails(id, p)
    \/ \E id \in RunIdInputs : TaskModeratorReturns(id)
    \/ \E id \in RunIdInputs : TaskModeratorFails(id)
    \/ \E id \in RunIdInputs : advance_debate(id)
    \/ \E k \in 1..MaxInFlight, p \in Participants, raw \in VoteTexts \cup PlainTexts :
          CallChatReturns(k, p, raw)
    \/ \E k \in 1..MaxInFlight, p \in Participants : CallChatFails(k, p)
    \/ \E k \in 1..MaxInFlight : CallModeratorReturns(k)
    \/ \E k \in 1..MaxInFlight : CallModeratorFails(k)
    \/ \E id \in RunIdInputs : cancel(id)

NextSerial ==
    \/ \E tid \in TemplateIdInputs, rounds \in RoundsInputs, mode \in ModeInputs :
          start_debate(tid, rounds, mode)
    \/ \E id \in RunIdInputs : TaskStart(id)
    \/ \E id \in RunIdInputs, p \in Participants, raw \in VoteTexts \cup PlainTexts :
          TaskChatReturns(id, p, raw)
    \/ \E id \in RunIdInputs, p \in Participants : TaskChatFails(id, p)
    \/ \E id \in RunIdInputs : TaskModeratorReturns(id)
    \/ \E id \in RunIdInputs : TaskModeratorFails(id)
    \/ \E id \in RunIdInputs : advance_serial(id)
    \/ \E k \in 1..MaxInFlight, p \in Participants, raw \in VoteTexts \cup PlainTexts :
          CallChatReturns(k, p, raw)
    \/ \E k \in 1..MaxInFlight, p \in Participants : CallChatFails(k, p)
    \/ \E k \in 1..MaxInFlight : CallModeratorReturns(k)
    \/ \E k \in 1..MaxInFlight : CallModeratorFails(k)
    \/ \E id \in RunIdInputs : cancel(id)

\* Callers serialize the advances of a run
Spec == Init /\ [][NextSerial]_vars

\* Advance calls of a run may overlap: runs of the two-round template in
\* auto and in step mode, a caller that does not wait for the response of
\* an advance before it issues the next
InitOverlap == InitWith({TTwo}) /\ tallier = NoTally

NextOverlap ==
    \/ \E tid \in TemplateIdInputs, rounds \in RoundsInputs, mode \in ModeInputs :
          start_debate(tid, rounds, mode)
    \/ \E id \in RunIdInputs : TaskStart(id)
    \/ \E id \in RunIdInputs, p \in Participants, raw \in PlainTexts :
          TaskChatReturns(id, p, raw)
    \/ \E id \in RunIdInputs, p \in Participants : TaskChatFails(id, p)
    \/ \E id \in RunIdInputs : advance_debate(id)
    \/ \E k \in 1..MaxInFlight, p \in Participants, raw \in PlainTexts :
          CallChatReturns(k, p, raw)
    \/ \E k \in 1..MaxInFlight, p \in Participants : CallChatFails(k, p)
    \/ \E id \in RunIdInputs : cancel(id)

SpecOverlap == InitOverlap /\ [][NextOverlap]_vars


\* Auto-mode runs of every template; a vote may also be a text of whitespace
\* only
NextAuto ==
    \/ \E tid \in TemplateIdInputs, rounds \in RoundsInputs :
          start_debate(tid, rounds, "auto")
    \/ \E id \in RunIdInputs : TaskStart(id)
    \/ \E id \in RunIdInputs, p \in Participants,
            raw \in VoteTexts \cup {" "} \cup PlainTexts :
          TaskChatReturns(id, p, raw)
    \/ \E id \in RunIdInputs, p \in Participants : TaskChatFails(id, p)
    \/ \E id \in RunIdInputs : TaskModeratorReturns(id)
    \/ \E id \in RunIdInputs : TaskModeratorFails(id)
    \/ \E id \in RunIdInputs : cancel(id)

SpecAuto == Init /\ [][NextAuto]_vars

\* The vote tallier applied to every list of TallyInputs
InitTally ==
    /\ InitWith({TVote})
    /\ \E outputs \in TallyInputs : tallier = [NoTally EXCEPT !.outputs = outputs]
SpecTally == InitTally /\ [][TallyVotes]_vars

\* The 2 rounds x 3 phases template run in auto mode, every chat call
\* returning text
InitCase == InitWith({TCase}) /\ tallier = NoTally

NextCase ==
    \/ \E tid \in TemplateIdInputs, rounds \in RoundsInputs :
          start_debate(tid, rounds, "auto")
    \/ \E id \in RunIdInputs : TaskStart(id)
    \/ \E id \in RunIdInputs, p \in Participants, raw \in PlainTexts :
          TaskChatReturns(id, p, raw)
    \/ \E id \in RunIdInputs : cancel(id)

SpecCase == InitCase /\ [][NextCase]_vars

\* ------------------------------------------------------------------ claims
TemplateOf(id) == templates[runs[id].template_id]
AutoRuns == {id \in RunIds : runs[id].mode = "auto"}
StepRuns == {id \in RunIds : runs[id].mode = "step"}

\* The chat calls a task has issued and not yet seen complete
Outstanding(t) ==
    CASE t.pc = "phase" -> {<<t.round_index, t.phase_idx, p>> : p \in t.pending}
      [] t.pc = "moderator" ->
            {<<t.round_index, Len(templates[t.template].phases), "moderator">>}
      [] OTHER -> {}

\* advance_debate is called for run id in this step
AdvanceCalled(id) == advances'[id] = advances[id] + 1

\* C1: once a run's status is canceled, no step of the engine (the rest of
\* an auto-mode round loop, an advance in flight, finalization) sets it to
\* running or completed.
C1_CanceledNeverRevived ==
    [][\A id \in RunIds :
          runs[id].status = "canceled" =>
              runs'[id].status \notin {"running", "completed"}]_vars

\* An auto-mode run canceled in flight whose task has since run its loop to
\* the end and reached _finalize (which wrote no record)
C1_Witness ==
    \E id \in AutoRuns :
        /\ runs[id].status = "canceled"
        /\ tasks[id].pc = "returned"
        /\ runs[id].rounds # <<>>
        /\ final_records = <<>>

\* C2: after cancel of an auto-mode run the status is canceled and the list
\* of RoundResults never grows again, wherever the cancel falls.
C2_NoRoundAfterCancel ==
    [][\A id \in AutoRuns :
          runs[id].status = "canceled" =>
              /\ runs'[id].status = "canceled"
              /\ Len(runs'[id].rounds) = Len(runs[id].rounds)]_vars

\* A canceled auto-mode run whose task is still inside a phase fan-out,
\* part of whose outputs have been appended
C2_Witness ==
    \E id \in AutoRuns :
        /\ runs[id].status = "canceled"
        /\ tasks[id].pc = "phase"
        /\ tasks[id].outputs # <<>>
        /\ tasks[id].pending # {}

\* C3: after cancel of an auto-mode run, the task issues no further chat
\* call: no later phase of the round in flight, no moderator summary, no
\* phase of a later round.
C3_NoDispatchAfterCancel ==
    [][\A id \in AutoRuns :
          runs[id].status = "canceled" =>
              Outstanding(tasks'[id]) \subseteq Outstanding(tasks[id])]_vars

\* C4: advance on a step-mode run whose status is terminal returns normally
\* with done = TRUE and changes nothing.
C4_AdvanceTerminalIdempotent ==
    [][\A id \in StepRuns :
          (AdvanceCalled(id) /\ runs[id].status \in Terminal) =>
              /\ resp' = Resp("advance", id, advances'[id], "ok", TRUE)
              /\ UNCHANGED <<runs, final_records, progress, context, calls>>]_vars

NoVotePhase(template) ==
    \A i \in DOMAIN template.phases : template.phases[i].role # "vote"

\* C5: in a step-mode run of a template with R rounds and P phases, no vote
\* phase and no moderator, advance calls 1 .. R*P-1 return done = FALSE and
\* call R*P returns normally with done = TRUE and status completed.
C5_StepDoneAfterAllPhases ==
    \A id \in StepRuns :
        LET template == TemplateOf(id)
            last == started[id] * Len(template.phases)
        IN  ( /\ resp.op = "advance" /\ resp.id = id
              /\ NoVotePhase(template) /\ ~template.moderator
              /\ started[id] = template.rounds
              /\ runs[id].status # "canceled" ) =>
                /\ resp.n < last => (resp.result = "ok" /\ ~resp.done)
                /\ resp.n = last =>
                      /\ resp.result = "ok" /\ resp.done
                      /\ runs[id].status = "completed"

\* The auto-mode run of the 2 x 3 template has run to its end without cancel
CaseRunEnded(id) ==
    /\ TemplateOf(id) = TCase
    /\ started[id] = TCase.rounds
    /\ tasks[id].pc \in {"returned", "raised"}
    /\ runs[id].status # "canceled"

\* C6, amended: the auto-mode run of the 2 rounds x 3 phases template (no
\* vote phase, no moderator), run to its end without cancel, has exactly 2
\* RoundResults, each with one PhaseOutput per phase and roster participant
\* (3 x 3 = 9 for the smallest roster), and status completed.
C6_AutoRunShape ==
    \A id \in AutoRuns :
        CaseRunEnded(id) =>
            /\ Len(runs[id].rounds) = TCase.rounds
            /\ \A i \in DOMAIN runs[id].rounds :
                  Len(runs[id].rounds[i].phase_outputs) =
                      Len(TCase.phases) * Len(TCase.participants)
            /\ runs[id].status = "completed"

\* C6 as stated: each of the 2 RoundResults holds exactly 3 PhaseOutputs in
\* total across its phases.
C6_ThreeOutputsPerRound ==
    \A id \in AutoRuns :
        CaseRunEnded(id) =>
            /\ Len(runs[id].rounds) = TCase.rounds
            /\ \A i \in DOMAIN runs[id].rounds :
                  Len(runs[id].rounds[i].phase_outputs) = Len(TCase.phases)
            /\ runs[id].status = "completed"

C6_Witness ==
    \E id \in AutoRuns :
        /\ CaseRunEnded(id)
        /\ runs[id].status = "completed"
        /\ Len(runs[id].rounds) = TCase.rounds

\* C7: a terminal status (completed, failed, canceled) never changes again.
C7_TerminalIsFinal ==
    [][\A id \in RunIds :
          runs[id].status \in Terminal => runs'[id].status = runs[id].status]_vars

FinalRecordsOf(id) == {i \in DOMAIN final_records : final_records[i].debate_id = id}

\* C8: the store holds at most one FinalRecord per run, one for every run
\* whose status is completed, and none for a run that is still running.
C8_OneFinalRecordPerCompletedRun ==
    \A id \in RunIds :
        /\ Cardinality(FinalRecordsOf(id)) <= 1
        /\ runs[id].status = "completed" => Cardinality(FinalRecordsOf(id)) = 1
        /\ runs[id].status = "running" => FinalRecordsOf(id) = {}

\* The outcome finalization is to record: the last round's, INVALID when
\* there is no round or the last round recorded none
ExpectedOutcome(run) ==
    IF run.rounds = <<>> THEN "INVALID"
    ELSE IF run.rounds[Len(run.rounds)].outcome \in RoundOutcome
         THEN run.rounds[Len(run.rounds)].outcome
         ELSE "INVALID"

\* C9: finalization never fails, and the FinalRecord of a completed run
\* carries the last round's outcome, or INVALID when the run has no round or
\* its last round recorded no outcome.
C9_FinalOutcomeDefaultsToInvalid ==
    /\ resp.result # "ValidationError"
    /\ \A id \in DOMAIN tasks : tasks[id].exc # "ValidationError"
    /\ \A id \in RunIds :
          runs[id].status = "completed" =>
              \E i \in FinalRecordsOf(id) :
                  final_records[i].final_outcome = ExpectedOutcome(runs[id])

\* C10: advance on a stored auto-mode run, whatever its status, fails with
\* the invalid-mode error and changes neither the run, the cursor nor the
\* store.
C10_AdvanceAutoIsInvalidMode ==
    [][\A id \in AutoRuns :
          AdvanceCalled(id) =>
              /\ resp' = Resp("advance", id, advances'[id],
                              "debate not in step mode", FALSE)
              /\ UNCHANGED <<runs, final_records, progress, context, tasks,
                             calls>>]_vars

\* A participant's chat call of the fan-out of run id's task, or of the
\* advance call in slot k, fails in this step
TaskParticipantFails(id) ==
    /\ id \in DOMAIN tasks
    /\ tasks[id].pc = "phase"
    /\ tasks'[id] # tasks[id]
    /\ failures' = failures + 1
CallParticipantFails(k) ==
    /\ calls[k].pc = "phase"
    /\ calls'[k] # calls[k]
    /\ failures' = failures + 1

\* The last entries of a transcript are one PhaseOutput of the phase for
\* every roster participant
PhaseComplete(phase_outputs, phase, template) ==
    LET n == Len(template.participants)
        from == Len(phase_outputs) - n
    IN  /\ from >= 0
        /\ \A i \in 1..n : phase_outputs[from + i].phase_id = phase.id
        /\ {phase_outputs[from + i].participant_id : i \in 1..n} =
              Range(template.participants)

\* C11: a failing participant chat call is contained.  The step in which it
\* fails appends the error-marker PhaseOutput of that participant; the chat
\* call's exception leaves neither the task nor the advance call; when it was
\* the last call of the fan-out the phase is complete with one PhaseOutput
\* per roster participant and the run goes on: to the next phase, to the
\* moderator summary, to the next round (auto) or the moved cursor (step),
\* or to the end of the run with status completed (canceled if it was
\* canceled meanwhile).
C11_ParticipantFailureContained ==
    [][/\ \A id \in RunIdInputs :
             TaskParticipantFails(id) =>
               LET t == tasks[id]
                   u == tasks'[id]
                   template == templates[t.template]
                   phase == template.phases[t.phase_idx + 1]
                   before == runs[id].rounds[t.round_index].phase_outputs
                   after == runs'[id].rounds[t.round_index].phase_outputs
               IN  /\ \E p \in t.pending :
                         /\ after = Append(before, PhaseOutput(phase.id, p, ErrorMarker))
                         /\ t.pending # {p} =>
                               u = [t EXCEPT !.pending = @ \ {p},
                                             !.outputs = Append(@, after[Len(after)])]
                   /\ u.exc # "RuntimeError"
                   /\ Cardinality(t.pending) = 1 =>
                         /\ PhaseComplete(after, phase, template)
                         /\ IF t.phase_idx + 1 < Len(template.phases)
                            THEN /\ u.pc = "phase"
                                 /\ u.phase_idx = t.phase_idx + 1
                                 /\ u.pending = Range(template.participants)
                            ELSE IF template.moderator THEN u.pc = "moderator"
                            ELSE IF t.iter + 1 < t.total_rounds /\ id \in DOMAIN context
                            THEN /\ u.pc = "phase"
                                 /\ u.round_index = t.round_index + 1
                                 /\ u.pending = Range(template.participants)
                            ELSE /\ u.pc \in {"returned", "raised"}
                                 /\ runs'[id].status \in {"completed", "canceled"}
                                 /\ runs[id].status = "running" =>
                                        runs'[id].status = "completed"
       /\ \A k \in DOMAIN calls :
             CallParticipantFails(k) =>
               LET c == calls[k]
                   d == calls'[k]
                   template == templates[c.template]
                   phase == template.phases[c.phase_idx + 1]
                   before == runs[c.id].rounds[c.round_idx + 1].phase_outputs
                   after == runs'[c.id].rounds[c.round_idx + 1].phase_outputs
                   last == c.phase_idx + 1 = Len(template.phases)
                   cursor == IF last THEN <<c.round_idx + 1, 0>>
                             ELSE <<c.round_idx, c.phase_idx + 1>>
               IN  /\ \E p \in c.pending :
                         /\ after = Append(before, PhaseOutput(phase.id, p, ErrorMarker))
                         /\ c.pending # {p} =>
                               /\ d = [c EXCEPT !.pending = @ \ {p},
                                                !.outputs = Append(@, after[Len(after)])]
                               /\ resp' = resp
                   /\ resp' = resp \/ resp'.result # "RuntimeError"
                   /\ Cardinality(c.pending) = 1 =>
                         /\ PhaseComplete(after, phase, template)
                         /\ IF last /\ template.moderator THEN d.pc = "moderator"
                            ELSE /\ d.pc = "idle"
                                 /\ resp'.op = "advance" /\ resp'.n = c.n
                                 /\ IF cursor[1] < c.total_rounds
                                    THEN /\ progress'[c.id] = cursor
                                         /\ resp'.result = "ok"
                                    ELSE /\ runs'[c.id].status \in {"completed", "canceled"}
                                         /\ runs[c.id].status = "running" =>
                                                runs'[c.id].status = "completed"]_vars

\* A step-mode run of the argue/vote template, completed by its last advance,
\* in whose vote phase a participant's call failed: the error marker is in
\* the transcript and was tallied as an INVALID vote
C11_Witness ==
    \E id \in StepRuns :
        /\ runs[id].status = "completed"
        /\ resp = Resp("advance", id, 2, "ok", TRUE)
        /\ Len(runs[id].rounds) = 1
        /\ Len(runs[id].rounds[1].phase_outputs) = 6
        /\ \E i \in DOMAIN runs[id].rounds[1].votes :
              /\ runs[id].rounds[1].votes[i].raw_output = ErrorMarker
              /\ runs[id].rounds[1].votes[i].parsed_vote = "INVALID"
        /\ FinalRecordsOf(id) # {}

\* The moderator-summary chat call of run id's task, or of the advance call
\* in slot k, fails in this step
TaskModeratorCallFails(id) ==
    /\ id \in DOMAIN tasks
    /\ tasks[id].pc = "moderator"
    /\ tasks'[id] # tasks[id]
    /\ failures' = failures + 1
CallModeratorCallFails(k) ==
    /\ calls[k].pc = "moderator"
    /\ calls'[k] # calls[k]
    /\ failures' = failures + 1

\* C12: no failing chat call, the moderator-summary call included, aborts
\* the run: in the step in which it fails the auto-mode task does not end
\* with the call's exception but goes on to the next round or to
\* finalization, and the step-mode advance does not raise it and stores the
\* cursor moved past the phase it executed.
C12_ChatFailureNeverFatal ==
    [][/\ \A id \in RunIdInputs :
             (TaskParticipantFails(id) \/ TaskModeratorCallFails(id)) =>
               LET t == tasks[id]
                   u == tasks'[id]
               IN  /\ u.exc # "RuntimeError"
                   /\ t.pc = "moderator" =>
                         IF t.iter + 1 < t.total_rounds /\ id \in DOMAIN context
                         THEN u.pc = "phase" /\ u.round_index = t.round_index + 1
                         ELSE /\ u.pc \in {"returned", "raised"}
                              /\ runs'[id].status \in {"completed", "canceled"}
       /\ \A k \in DOMAIN calls :
             (CallParticipantFails(k) \/ CallModeratorCallFails(k)) =>
               LET c == calls[k]
               IN  /\ resp' = resp \/ resp'.result # "RuntimeError"
                   /\ c.pc = "moderator" =>
                         /\ calls'[k].pc = "idle"
                         /\ resp'.op = "advance" /\ resp'.n = c.n
                         /\ IF c.round_idx + 1 < c.total_rounds
                            THEN progress'[c.id] = <<c.round_idx + 1, 0>>
                            ELSE runs'[c.id].status \in {"completed", "canceled"}]_vars

\* The PhaseOutputs of a round for one phase and participant
OutputsOf(round, phase_id, p) ==
    {i \in DOMAIN round.phase_outputs :
        /\ round.phase_outputs[i].phase_id = phase_id
        /\ round.phase_outputs[i].participant_id = p}

\* A fan-out of phase number k of round number r of run id is in flight
PhaseInFlight(id, r, k) ==
    \/ /\ id \in DOMAIN tasks
       /\ tasks[id].pc = "phase"
       /\ tasks[id].round_index = r /\ tasks[id].phase_idx + 1 = k
    \/ \E c \in InFlight(id) :
          /\ calls[c].pc = "phase"
          /\ calls[c].round_idx + 1 = r /\ calls[c].phase_idx + 1 = k

\* The phase has been executed: it has outputs and its fan-out is over
PhaseFinished(id, r, k) ==
    /\ ~PhaseInFlight(id, r, k)
    /\ \E i \in DOMAIN runs[id].rounds[r].phase_outputs :
          runs[id].rounds[r].phase_outputs[i].phase_id = TemplateOf(id).phases[k].id

\* C13: in auto mode and in step mode with serialized advances, every
\* RoundResult holds at most one PhaseOutput per phase and participant, and
\* exactly one per roster participant for a phase that has finished.
C13_OneOutputPerPhaseAndParticipant ==
    \A id \in RunIds :
        \A r \in DOMAIN runs[id].rounds, k \in DOMAIN TemplateOf(id).phases :
            \A p \in Range(TemplateOf(id).participants) :
                LET n == Cardinality(OutputsOf(runs[id].rounds[r],
                                               TemplateOf(id).phases[k].id, p))
                IN  /\ n <= 1
                    /\ PhaseFinished(id, r, k) => n = 1

\* The raw texts of the list the tallier was called on
TalliedTexts == [i \in DOMAIN tallier.outputs |-> tallier.outputs[i].output]

\* The parsed votes of value v in the tallier's result
ParsedAs(v) ==
    {i \in DOMAIN tallier.result.votes : tallier.result.votes[i].parsed_vote = v}

\* C14: the outcome of a tally is YES when the YES votes outnumber the NO
\* votes, NO when the NO votes outnumber the YES votes, TIE when the two
\* counts are equal and positive, INVALID when both are zero; INVALID votes
\* count for neither side.
C14_TallyOutcome ==
    (tallier.done /\ tallier.result.exc = NoneVal) =>
        LET yes == Cardinality(ParsedAs("YES"))
            no == Cardinality(ParsedAs("NO"))
            outcome == tallier.result.outcome
        IN  /\ yes + no + Cardinality(ParsedAs("INVALID")) = Len(tallier.outputs)
            /\ yes > no => outcome = "YES"
            /\ no > yes => outcome = "NO"
            /\ (yes = no /\ yes > 0) => outcome = "TIE"
            /\ (yes = 0 /\ no = 0) => outcome = "INVALID"
            /\ TalliedTexts = <<"yes", "yes", "no">> => outcome = "YES"
            /\ TalliedTexts = <<"yes", "no">> => outcome = "TIE"
            /\ TalliedTexts = <<"maybe", "maybe">> => outcome = "INVALID"
            /\ TalliedTexts = <<"yes", "no", "no">> => outcome = "NO"

\* A tally of one YES, one NO and one INVALID vote: a tie
C14_Witness ==
    /\ tallier.done
    /\ TalliedTexts = <<"yes", "maybe", "no">>
    /\ tallier.result.outcome = "TIE"
    /\ Cardinality(ParsedAs("INVALID")) = 1

\* The texts that carry no vote: empty, whitespace only, the error marker
\* of a failed call, text without a yes or a no word
Unparseable == {"", " ", ErrorMarker, "maybe", "not sure"}

\* C15: for every list of vote-phase PhaseOutputs the tallier returns, and
\* returns one VoteResult per PhaseOutput, in order, for the same participant
\* and raw text, with parsed vote INVALID for every text that carries no
\* vote.
C15_TallierTotal ==
    tallier.done =>
        /\ tallier.result.exc = NoneVal
        /\ Len(tallier.result.votes) = Len(tallier.outputs)
        /\ \A i \in DOMAIN tallier.result.votes :
              /\ tallier.result.votes[i].participant_id =
                    tallier.outputs[i].participant_id
              /\ tallier.result.votes[i].raw_output = tallier.outputs[i].output
              /\ tallier.outputs[i].output \in Unparseable =>
                    tallier.result.votes[i].parsed_vote = "INVALID"

\* The prompts of the chat calls of run id in flight: the round each was
\* built for (the round_index handed to _build_messages) and its history
Prompts(id) ==
    {[round |-> tasks[i].round_index, history |-> tasks[i].history] :
        i \in {i \in DOMAIN tasks : i = id /\ tasks[i].pc = "phase"}}
    \cup
    {[round |-> calls[k].round_idx + 1, history |-> calls[k].history] :
        k \in {k \in InFlight(id) : calls[k].pc = "phase"}}

\* C16: in auto and in step mode, every prompt built for a phase of round 1
\* renders the history as the "no prior round responses" placeholder, not
\* as an empty text nor as a rendering of round 1.
C16_FirstRoundPlaceholder ==
    \A id \in RunIds :
        \A prompt \in Prompts(id) :
            prompt.round = 1 => prompt.history = NoPriorRound

\* The rendering of the full transcript of round number r of a run
TranscriptOf(run, r) == _prior_round_transcript([rounds |-> SubSeq(run.rounds, 1, r)])

\* C19: the history of a prompt built for a phase of round N >= 2 is the
\* full transcript of round N-1 (its PhaseOutputs and votes line), not the
\* transcript so far of round N.
C19_HistoryIsPreviousRound ==
    \A id \in RunIds :
        \A prompt \in Prompts(id) :
            prompt.round >= 2 =>
                prompt.history = TranscriptOf(runs[id], prompt.round - 1)

\* The fan-outs of run id in flight: round number and phase number
FanOuts(id) ==
    {<<tasks[i].round_index, tasks[i].phase_idx + 1>> :
        i \in {i \in DOMAIN tasks : i = id /\ tasks[i].pc = "phase"}}
    \cup
    {<<calls[k].round_idx + 1, calls[k].phase_idx + 1>> :
        k \in {k \in InFlight(id) : calls[k].pc = "phase"}}

\* Every participant call of phase number k of round number r has completed
\* and its output is stored, and so is the tally of a vote phase
PhaseDone(id, r, k) ==
    LET round == runs[id].rounds[r]
        phase == TemplateOf(id).phases[k]
    IN  /\ \A p \in Range(TemplateOf(id).participants) :
              OutputsOf(round, phase.id, p) # {}
        /\ phase.role = "vote" =>
              /\ Len(round.votes) >= Len(TemplateOf(id).participants)
              /\ round.outcome \in RoundOutcome

\* The last step of round number r has completed and is stored
RoundDone(id, r) ==
    /\ r \in DOMAIN runs[id].rounds
    /\ \A k \in DOMAIN TemplateOf(id).phases : PhaseDone(id, r, k)
    /\ TemplateOf(id).moderator => runs[id].rounds[r].moderator_summary # NoneVal

\* C17: while participant calls of phase k of round N are in flight, every
\* round before N has completed its last step (moderator summary, or last
\* phase and tally) and every phase of round N before k has all its
\* outputs stored; the calls in flight of a run all belong to one phase.
C17_RoundsAndPhasesSequential ==
    \A id \in RunIds :
        /\ Cardinality(FanOuts(id)) <= 1
        /\ \A f \in FanOuts(id) :
              /\ \A r \in 1..(f[1] - 1) : RoundDone(id, r)
              /\ \A k \in 1..(f[2] - 1) : PhaseDone(id, f[1], k)

\* The calls of round 2 of an auto-mode run with a moderator are in flight,
\* after the summary of round 1
C17_Witness ==
    \E id \in AutoRuns :
        /\ FanOuts(id) = {<<2, 1>>}
        /\ tasks[id].pending # {}
        /\ TemplateOf(id).moderator
        /\ runs[id].rounds[1].moderator_summary = "summary"
        /\ runs[id].status = "running"

\* The cursor after the phase an advance call executed
NextCursor(c) ==
    IF c.phase_idx = Len(templates[c.template].phases) - 1
    THEN <<c.round_idx + 1, 0>>
    ELSE <<c.round_idx, c.phase_idx + 1>>

\* C18: in step mode with serialized advances, an advance on a non-terminal
\* run executes the phase the cursor points at, which has not been executed
\* before (the phases before it have, in order from (0,0)); when the call
\* ends, with or without a failing chat call, the cursor has moved to the
\* next phase of the round or to phase 0 of the next round (or finalization
\* has dropped it after the last round).
C18_StepCursorStrictlyIncreasing ==
    [][\A k \in DOMAIN calls :
          LET c == calls[k]
              d == calls'[k]
          IN  /\ \A id \in DOMAIN progress :
                    (c.pc = "idle" /\ d.pc = "phase" /\ d.id = id) =>
                      LET round_idx == progress[id][1]
                          phase_idx == progress[id][2]
                          phase == TemplateOf(id).phases[phase_idx + 1]
                      IN  /\ <<d.round_idx, d.phase_idx>> = progress[id]
                          /\ Len(runs'[id].rounds) = round_idx + 1
                          /\ \A r \in 1..round_idx : RoundDone(id, r)'
                          /\ \A j \in 1..phase_idx : PhaseDone(id, round_idx + 1, j)'
                          /\ \A p \in Range(TemplateOf(id).participants) :
                                OutputsOf(runs[id].rounds[round_idx + 1],
                                          phase.id, p)' = {}
              /\ (c.pc # "idle" /\ d.pc = "idle") =>
                    IF c.id \in DOMAIN progress'
                    THEN progress'[c.id] = NextCursor(c)
                    ELSE NextCursor(c)[1] >= c.total_rounds]_vars

\* No operation on run id is in progress: no advance call is suspended and
\* the background task, if any, has ended
Quiescent(id) ==
    /\ InFlight(id) = {}
    /\ id \in DOMAIN tasks => tasks[id].pc \in {"returned", "raised"}

\* C20: when a run's status is completed or canceled and no operation on
\* it is in progress, neither the progress table nor the context table has
\* an entry for it.
C20_NoEphemeralEntryAfterTerminal ==
    \A id \in RunIds :
        (runs[id].status \in {"completed", "canceled"} /\ Quiescent(id)) =>
            /\ id \notin DOMAIN progress
            /\ id \notin DOMAIN context

\* C21: for a run started with total_rounds >= 1, in every step (of the
\* auto-mode task, of overlapping advance calls, of cancel) the list of
\* RoundResults changes only by an append at its end, its i-th element has
\* round_index i, and it is never longer than total_rounds.
C21_RoundsAppendOnly ==
    [][\A id \in RunIds :
          started[id] >= 1 =>
              /\ Len(runs'[id].rounds) \in {Len(runs[id].rounds), Len(runs[id].rounds) + 1}
              /\ \A i \in DOMAIN runs[id].rounds :
                    runs'[id].rounds[i].round_index = runs[id].rounds[i].round_index
              /\ \A i \in DOMAIN runs'[id].rounds : runs'[id].rounds[i].round_index = i
              /\ Len(runs'[id].rounds) <= started[id]]_vars

\* A step-mode run with two advance calls in flight, one executing round 1
\* and one round 2
C21_Witness ==
    \E id \in StepRuns :
        /\ Len(runs[id].rounds) = 2
        /\ {calls[k].round_idx : k \in InFlight(id)} = {0, 1}
        /\ runs[id].rounds[2].round_index = 2

\* Lexicographic order of cursors
CursorLeq(a, b) == a[1] < b[1] \/ (a[1] = b[1] /\ a[2] <= b[2])

\* No two advance calls in flight of run id execute the same (round, phase)
NoPairExecutedTwice(id) ==
    \A j, k \in InFlight(id) :
        (j # k /\ calls[j].pc = "phase" /\ calls[k].pc = "phase") =>
            <<calls[j].round_idx, calls[j].phase_idx>> #
                <<calls[k].round_idx, calls[k].phase_idx>>

\* No round of run id holds two PhaseOutputs of one phase and participant
NoDuplicateOutput(id) ==
    \A r \in DOMAIN runs[id].rounds, k \in DOMAIN TemplateOf(id).phases :
        \A p \in Range(TemplateOf(id).participants) :
            Cardinality(OutputsOf(runs[id].rounds[r],
                                  TemplateOf(id).phases[k].id, p)) <= 1

\* C22: when advance calls of a step-mode run overlap, no (round, phase)
\* pair is executed by more than one of them, no round receives two
\* PhaseOutputs for the same phase and participant, and the progress cursor
\* never moves backwards.
C22_OverlappingAdvancesGuarded ==
    [][\A id \in StepRuns :
          /\ NoPairExecutedTwice(id)'
          /\ NoDuplicateOutput(id)'
          /\ (id \in DOMAIN progress /\ id \in DOMAIN progress') =>
                CursorLeq(progress[id], progress'[id])]_vars

\* The background task of run id has ended
TaskEnded(id) == id \in DOMAIN tasks /\ tasks[id].pc \in {"returned", "raised"}

\* C23: an auto-mode run does not stay in status running once its
\* background task has ended: whatever the template and whatever texts the
\* chat calls return, when the task ends the run is completed, or canceled.
C23_AutoRunLeavesRunning ==
    \A id \in AutoRuns : TaskEnded(id) => runs[id].status # "running"

====
